---------------------------- MODULE Spec2Model ----------------------------
(***************************************************************************)
(* psqltoolbox: ParsePostgresURL, PgDumpToFile and DropTablesAndMigrate.   *)
(*                                                                         *)
(* Strings are sequences of one-character strings, so that parsing,        *)
(* percent-decoding and %q formatting are computed character by character. *)
(***************************************************************************)
EXTENDS Integers, Sequences, FiniteSets, TLC

(***************************************************************************)
(* Bounds of the model.                                                    *)
(***************************************************************************)
MaxRawLen == 3
MaxTimeout == 2
MaxDur == 3
MaxMigrateDur == 6

(***************************************************************************)
(* Generic string helpers (package strings).                               *)
(***************************************************************************)
Empty == << >>

Index(s, c) ==
    IF \E i \in 1..Len(s) : s[i] = c
    THEN CHOOSE i \in 1..Len(s) : s[i] = c /\ \A j \in 1..(i - 1) : s[j] # c
    ELSE 0

LastIndex(s, c) ==
    IF \E i \in 1..Len(s) : s[i] = c
    THEN CHOOSE i \in 1..Len(s) : s[i] = c /\ \A j \in (i + 1)..Len(s) : s[j] # c
    ELSE 0

Contains(s, c) == \E i \in 1..Len(s) : s[i] = c

Count(s, c) == Cardinality({i \in 1..Len(s) : s[i] = c})

HasPrefix(s, p) == Len(s) >= Len(p) /\ SubSeq(s, 1, Len(p)) = p

HasSuffix(s, p) == Len(s) >= Len(p) /\ SubSeq(s, Len(s) - Len(p) + 1, Len(s)) = p

Before(s, i) == SubSeq(s, 1, i - 1)

From(s, i) == SubSeq(s, i, Len(s))

\* strings.Cut(s, c): text before the first c and text after it
CutBefore(s, c) == IF Index(s, c) = 0 THEN s ELSE Before(s, Index(s, c))

CutAfter(s, c) == IF Index(s, c) = 0 THEN Empty ELSE From(s, Index(s, c) + 1)

TrimPrefix(s, p) == IF HasPrefix(s, p) THEN From(s, Len(p) + 1) ELSE s

(***************************************************************************)
(* Character classes of net/url over the alphabet of the model.            *)
(***************************************************************************)
Digits == {"0", "1", "2", "3", "4", "5"}

Letters == {"s", "u", "p", "h", "d", "m", "x", "A", "F", "e", "r", "o", "t", "b",
            "g", "n", "c", "l", "i", "a", "U", "R", "L"}

HexVal == [c \in Digits \cup {"A", "F", "a", "b", "c", "d", "e"} |->
            CASE c = "0" -> 0 [] c = "1" -> 1 [] c = "2" -> 2 [] c = "3" -> 3
              [] c = "4" -> 4 [] c = "5" -> 5 [] c \in {"A", "a"} -> 10
              [] c = "b" -> 11 [] c = "c" -> 12 [] c = "d" -> 13 [] c = "e" -> 14
              [] c = "F" -> 15]

ishex(c) == c \in DOMAIN HexVal

unhex(c) == HexVal[c]

\* the byte with the given value, as a character
ByteChar(n) ==
    CASE n = 10 -> "\n" [] n = 32 -> " " [] n = 34 -> "\"" [] n = 35 -> "#"
      [] n = 37 -> "%" [] n = 47 -> "/" [] n = 58 -> ":" [] n = 63 -> "?"
      [] n = 64 -> "@" [] n = 65 -> "A" [] n = 92 -> "\\"
      [] OTHER -> "byte" \o ToString(n)

CTLBytes == {"\n"}

stringContainsCTLByte(s) == \E i \in 1..Len(s) : s[i] \in CTLBytes

\* characters validUserinfo accepts
UserinfoChars ==
    Letters \cup Digits
      \cup {"-", ".", "_", ":", "~", "!", "$", "&", "*", "+", ",", ";", "=", "%", "@"}

validUserinfo(s) == \A i \in 1..Len(s) : s[i] \in UserinfoChars

\* characters shouldEscape(c, encodeHost) reports as needing escape
HostBadChars == {" ", "/", "?", "#", "@", "\\", "\n"}

(***************************************************************************)
(* net/url unescape: "ok" and the decoded text, or an error.               *)
(***************************************************************************)
BadEscapeAt(s, i, mode) ==
    /\ s[i] = "%"
    /\ \/ i + 2 > Len(s)
       \/ ~ishex(s[i + 1])
       \/ ~ishex(s[i + 2])
       \/ /\ mode = "encodeHost"
          /\ unhex(s[i + 1]) < 8
          /\ SubSeq(s, i, i + 2) # <<"%", "2", "5">>

RECURSIVE EscapesOK(_, _, _)
EscapesOK(s, i, mode) ==
    IF i > Len(s) THEN TRUE
    ELSE IF s[i] = "%"
         THEN ~BadEscapeAt(s, i, mode) /\ EscapesOK(s, i + 3, mode)
         ELSE /\ ~(mode = "encodeHost" /\ s[i] \in HostBadChars)
              /\ EscapesOK(s, i + 1, mode)

RECURSIVE Decode(_, _)
Decode(s, i) ==
    IF i > Len(s) THEN Empty
    ELSE IF s[i] = "%"
         THEN <<ByteChar(16 * unhex(s[i + 1]) + unhex(s[i + 2]))>> \o Decode(s, i + 3)
         ELSE <<s[i]>> \o Decode(s, i + 1)

unescape(s, mode) ==
    IF EscapesOK(s, 1, mode)
    THEN [ok |-> TRUE, s |-> Decode(s, 1)]
    ELSE [ok |-> FALSE, s |-> Empty]

(***************************************************************************)
(* net/url getScheme, parseHost, parseAuthority, parse, Parse.             *)
(***************************************************************************)
SchemeLater == Digits \cup {"+", "-", "."}

\* index of the character at which getScheme stops, 0 when it reaches the end
RECURSIVE SchemeStop(_, _)
SchemeStop(s, i) ==
    IF i > Len(s) THEN 0
    ELSE IF s[i] \in Letters THEN SchemeStop(s, i + 1)
    ELSE IF s[i] \in SchemeLater /\ i > 1 THEN SchemeStop(s, i + 1)
    ELSE i

getScheme(s) ==
    LET i == SchemeStop(s, 1) IN
    IF i # 0 /\ s[i] = ":"
    THEN IF i = 1
         THEN [ok |-> FALSE, scheme |-> Empty, rest |-> Empty]
         ELSE [ok |-> TRUE, scheme |-> Before(s, i), rest |-> From(s, i + 1)]
    ELSE [ok |-> TRUE, scheme |-> Empty, rest |-> s]

validOptionalPort(p) ==
    \/ p = Empty
    \/ /\ p[1] = ":"
       /\ \A i \in 2..Len(p) : p[i] \in Digits

\* an IP literal is taken without a zone identifier ("%25" inside the brackets),
\* which no input of the model contains
parseHost(h) ==
    IF HasPrefix(h, <<"[">>)
    THEN IF LastIndex(h, "]") = 0
         THEN [ok |-> FALSE, s |-> Empty]
         ELSE IF ~validOptionalPort(From(h, LastIndex(h, "]") + 1))
              THEN [ok |-> FALSE, s |-> Empty]
              ELSE unescape(h, "encodeHost")
    ELSE IF LastIndex(h, ":") # 0 /\ ~validOptionalPort(From(h, LastIndex(h, ":")))
         THEN [ok |-> FALSE, s |-> Empty]
         ELSE unescape(h, "encodeHost")

NoUser == [set |-> FALSE, username |-> Empty, password |-> Empty, passwordSet |-> FALSE]

parseAuthority(a) ==
    LET i == LastIndex(a, "@")
        h == parseHost(IF i = 0 THEN a ELSE From(a, i + 1))
        userinfo == Before(a, i)
        bad == [ok |-> FALSE, user |-> NoUser, host |-> Empty]
    IN
    IF ~h.ok THEN bad
    ELSE IF i = 0 THEN [ok |-> TRUE, user |-> NoUser, host |-> h.s]
    ELSE IF ~validUserinfo(userinfo) THEN bad
    ELSE IF ~Contains(userinfo, ":")
         THEN LET n == unescape(userinfo, "encodeUserPassword") IN
              IF ~n.ok THEN bad
              ELSE [ok |-> TRUE, host |-> h.s,
                    user |-> [set |-> TRUE, username |-> n.s,
                              password |-> Empty, passwordSet |-> FALSE]]
         ELSE LET n == unescape(CutBefore(userinfo, ":"), "encodeUserPassword")
                  p == unescape(CutAfter(userinfo, ":"), "encodeUserPassword")
              IN
              IF ~n.ok \/ ~p.ok THEN bad
              ELSE [ok |-> TRUE, host |-> h.s,
                    user |-> [set |-> TRUE, username |-> n.s,
                              password |-> p.s, passwordSet |-> TRUE]]

BadURL == [ok |-> FALSE, Scheme |-> Empty, Opaque |-> Empty, User |-> NoUser,
           Host |-> Empty, Path |-> Empty]

\* url.parse(rawURL, viaRequest = false), query and fragment contents dropped
parse(s) ==
    IF stringContainsCTLByte(s) THEN BadURL
    ELSE IF s = <<"*">>
    THEN [BadURL EXCEPT !.ok = TRUE, !.Path = <<"*">>]
    ELSE
    LET g == getScheme(s)
        rest == IF HasSuffix(g.rest, <<"?">>) /\ Count(g.rest, "?") = 1
                THEN Before(g.rest, Len(g.rest))
                ELSE CutBefore(g.rest, "?")
        hasAuthority == /\ (g.scheme # Empty \/ ~HasPrefix(rest, <<"/", "/", "/">>))
                        /\ HasPrefix(rest, <<"/", "/">>)
        afterSlashes == From(rest, 3)
        authority == CutBefore(afterSlashes, "/")
        pathText == IF hasAuthority
                    THEN IF Index(afterSlashes, "/") = 0 THEN Empty
                         ELSE From(afterSlashes, Index(afterSlashes, "/"))
                    ELSE rest
        a == IF hasAuthority THEN parseAuthority(authority)
             ELSE [ok |-> TRUE, user |-> NoUser, host |-> Empty]
        p == unescape(pathText, "encodePath")
    IN
    IF ~g.ok THEN BadURL
    ELSE IF ~HasPrefix(rest, <<"/">>) /\ g.scheme # Empty
    THEN [BadURL EXCEPT !.ok = TRUE, !.Scheme = g.scheme, !.Opaque = rest]
    ELSE IF ~HasPrefix(rest, <<"/">>) /\ Contains(CutBefore(rest, "/"), ":")
    THEN BadURL
    ELSE IF ~a.ok \/ ~p.ok THEN BadURL
    ELSE [ok |-> TRUE, Scheme |-> g.scheme, Opaque |-> Empty, User |-> a.user,
          Host |-> a.host, Path |-> p.s]

\* url.Parse: the fragment is cut off first and must unescape
Parse(s) ==
    LET u == parse(CutBefore(s, "#"))
        frag == CutAfter(s, "#")
    IN
    IF ~u.ok THEN BadURL
    ELSE IF frag # Empty /\ ~unescape(frag, "encodeFragment").ok THEN BadURL
    ELSE u

(***************************************************************************)
(* URL.Hostname, URL.Port (splitHostPort).                                 *)
(***************************************************************************)
HostPortSplits(hp) ==
    LastIndex(hp, ":") # 0 /\ validOptionalPort(From(hp, LastIndex(hp, ":")))

Hostname(u) ==
    LET h == IF HostPortSplits(u.Host) THEN Before(u.Host, LastIndex(u.Host, ":"))
             ELSE u.Host
    IN IF HasPrefix(h, <<"[">>) /\ HasSuffix(h, <<"]">>)
       THEN SubSeq(h, 2, Len(h) - 1)
       ELSE h

Port(u) ==
    IF HostPortSplits(u.Host) THEN From(u.Host, LastIndex(u.Host, ":") + 1)
    ELSE Empty

(***************************************************************************)
(* fmt %q (strconv.Quote) and the error text of ParsePostgresURL.          *)
(***************************************************************************)
RECURSIVE QuoteBody(_)
QuoteBody(s) ==
    IF s = Empty THEN Empty
    ELSE (IF Head(s) \in {"\"", "\\"} THEN <<"\\", Head(s)>>
          ELSE IF Head(s) = "\n" THEN <<"\\", "n">>
          ELSE <<Head(s)>>) \o QuoteBody(Tail(s))

\* the value put between quotes as it is (%s in place of %q)
Quote_Verbatim(s) == <<"\"">> \o s \o <<"\"">>

Quote(s) == <<"\"">> \o QuoteBody(s) \o <<"\"">>

IncompletePrefix ==
    <<"i", "n", "c", "o", "m", "p", "l", "e", "t", "e", " ",
      "d", "a", "t", "a", "b", "a", "s", "e", " ", "U", "R", "L", ";", " ",
      "g", "o", "t">>

FieldLabel(f) ==
    CASE f = "user" -> <<" ", "u", "s", "e", "r", "=">>
      [] f = "pass" -> <<" ", "p", "a", "s", "s", "=">>
      [] f = "host" -> <<" ", "h", "o", "s", "t", "=">>
      [] f = "port" -> <<" ", "p", "o", "r", "t", "=">>
      [] f = "db" -> <<" ", "d", "b", "=">>

IncompleteMsg(user, host, port, db) ==
    IncompletePrefix \o FieldLabel("user") \o Quote(user)
      \o FieldLabel("host") \o Quote(host)
      \o FieldLabel("port") \o Quote(port)
      \o FieldLabel("db") \o Quote(db)

(***************************************************************************)
(* ParsePostgresURL.  The record carries the five returned values, the     *)
(* error chain (empty = nil), the error text, and the values of the locals *)
(* at the completeness test.                                               *)
(***************************************************************************)
\* the password left out of the completeness test
Incomplete_NoPass(user, pass, host, port, db) ==
    user = Empty \/ host = Empty \/ port = Empty \/ db = Empty

\* the completeness test of ParsePostgresURL
Incomplete(user, pass, host, port, db) ==
    user = Empty \/ pass = Empty \/ host = Empty \/ port = Empty \/ db = Empty

\* the path taken as the database name, separator included
DatabaseName_NoTrim(path) == path

\* the database name: the path without its leading separator
DatabaseName(path) == TrimPrefix(path, <<"/">>)

NoFields == [user |-> Empty, pass |-> Empty, host |-> Empty, port |-> Empty,
             db |-> Empty]

Failure(chain, msg, got) ==
    [user |-> Empty, pass |-> Empty, host |-> Empty, port |-> Empty, db |-> Empty,
     err |-> chain, msg |-> msg, got |-> got]

Fields(user, pass, host, port, db) ==
    [user |-> user, pass |-> pass, host |-> host, port |-> port, db |-> db]

\* lines 38-41: the completeness test and the two returns after it
Validate(user, pass, host, port, db) ==
    IF Incomplete(user, pass, host, port, db)
    THEN Failure(<<"incomplete database URL">>, IncompleteMsg(user, host, port, db),
                 Fields(user, pass, host, port, db))
    ELSE [user |-> user, pass |-> pass, host |-> host, port |-> port, db |-> db,
          err |-> Empty, msg |-> Empty, got |-> Fields(user, pass, host, port, db)]

\* lines 23-36: the parse error, and the extraction of the five values
Extract(u) ==
    IF ~u.ok
    THEN Failure(<<"parse url", "url.Error">>, <<"parse url: ">>, NoFields)
    ELSE Validate(IF u.User.set THEN u.User.username ELSE Empty,
                  IF u.User.set THEN u.User.password ELSE Empty,
                  Hostname(u), Port(u), DatabaseName(u.Path))

ParsePostgresURL(rawurl) ==
    IF rawurl = Empty
    THEN Failure(<<"empty db url">>, <<"empty db url">>, NoFields)
    ELSE Extract(Parse(rawurl))

(***************************************************************************)
(* Inputs.  A built URL is scheme "//" userinfo "@" host port path suffix, *)
(* each part drawn from a small set; text is what the URL contains, plain  *)
(* is the value the text stands for, wf says the part is present and       *)
(* syntactically valid.                                                    *)
(***************************************************************************)
Schemes ==
    { [text |-> <<"s", ":">>, wf |-> TRUE],
      [text |-> <<"p", "g", ":">>, wf |-> TRUE],
      [text |-> Empty, wf |-> FALSE],
      [text |-> <<"1", "s", ":">>, wf |-> FALSE] }

Users ==
    { [text |-> <<"u">>, plain |-> <<"u">>, wf |-> TRUE],
      [text |-> <<"u", "%", "4", "0">>, plain |-> <<"u", "@">>, wf |-> TRUE],
      [text |-> Empty, plain |-> Empty, wf |-> FALSE],
      [text |-> <<"%", "x">>, plain |-> Empty, wf |-> FALSE] }

Passwords ==
    { [text |-> <<":", "p">>, plain |-> <<"p">>, wf |-> TRUE],
      [text |-> <<":", "u">>, plain |-> <<"u">>, wf |-> TRUE],
      [text |-> <<":", "p", "%", "3", "A">>, plain |-> <<"p", ":">>, wf |-> TRUE],
      [text |-> <<":">>, plain |-> Empty, wf |-> FALSE],
      [text |-> Empty, plain |-> Empty, wf |-> FALSE] }

Hosts ==
    { [text |-> <<"h">>, plain |-> <<"h">>, wf |-> TRUE],
      [text |-> <<"[", ":", ":", "1", "]">>, plain |-> <<":", ":", "1">>, wf |-> TRUE],
      [text |-> <<"h", "%", "4", "1">>, plain |-> <<"h", "A">>, wf |-> TRUE],
      [text |-> Empty, plain |-> Empty, wf |-> FALSE],
      [text |-> <<"h", " ", "h">>, plain |-> Empty, wf |-> FALSE] }

Ports ==
    { [text |-> <<":", "5">>, plain |-> <<"5">>, wf |-> TRUE],
      [text |-> <<":", "5", "4">>, plain |-> <<"5", "4">>, wf |-> TRUE],
      [text |-> <<":">>, plain |-> Empty, wf |-> FALSE],
      [text |-> Empty, plain |-> Empty, wf |-> FALSE],
      [text |-> <<":", "5", "x">>, plain |-> Empty, wf |-> FALSE] }

Databases ==
    { [text |-> <<"/", "d">>, plain |-> <<"d">>, wf |-> TRUE],
      [text |-> <<"/", "d", "%", "2", "F", "x">>, plain |-> <<"d", "/", "x">>, wf |-> TRUE],
      [text |-> <<"/", "/", "d">>, plain |-> <<"/", "d">>, wf |-> TRUE],
      [text |-> <<"/">>, plain |-> Empty, wf |-> FALSE],
      [text |-> Empty, plain |-> Empty, wf |-> FALSE],
      [text |-> <<"/", "\"", " ", "d", "b", "=", "\"", "x">>,
       plain |-> <<"\"", " ", "d", "b", "=", "\"", "x">>, wf |-> FALSE] }

Suffixes == {Empty, <<"?", "x">>, <<"#", "x">>}

\* userinfo is left out, "@" included, when neither a user nor a password is given
Userinfo(user, pass) ==
    IF user.text = Empty /\ pass.text = Empty THEN Empty
    ELSE user.text \o pass.text \o <<"@">>

Build(scheme, user, pass, host, port, db, suffix) ==
    [raw |-> scheme.text \o <<"/", "/">> \o Userinfo(user, pass) \o host.text
               \o port.text \o db.text \o suffix,
     built |-> TRUE, scheme |-> scheme, user |-> user, pass |-> pass,
     host |-> host, port |-> port, db |-> db]

BuiltInputs ==
    { Build(sc, us, pa, ho, po, da, su) :
        sc \in Schemes, us \in Users, pa \in Passwords, ho \in Hosts,
        po \in Ports, da \in Databases, su \in Suffixes }

NoPart == [text |-> Empty, plain |-> Empty, wf |-> FALSE]

Unbuilt(raw) ==
    [raw |-> raw, built |-> FALSE, scheme |-> [text |-> Empty, wf |-> FALSE],
     user |-> NoPart, pass |-> NoPart, host |-> NoPart, port |-> NoPart,
     db |-> NoPart]

\* every string of at most MaxRawLen characters over a small alphabet
RawAlphabet == {"s", ":", "/", "@", "5", "%"}

RawStrings == UNION { [1..n -> RawAlphabet] : n \in 0..MaxRawLen }

\* the inputs of TestParsePostgresURL_Valid and TestParsePostgresURL_Invalid
TestValid ==
    <<"p", "o", "s", "t", "g", "r", "e", "s", ":", "/", "/", "a", "l", "i", "c", "e",
      ":", "s", "e", "c", "r", "e", "t", "@", "d", "b", ".", "e", "x", "a", "m", "p",
      "l", "e", ".", "c", "o", "m", ":", "5", "4", "3", "2", "/", "m", "d", "b">>

TestInvalid ==
    { Empty,
      <<"s", ":", "/", "/", "a", "@", "h", ":", "5", "/", "d">>,
      <<"s", ":", "/", "/", ":", "p", "@", "h", ":", "5", "/", "d">>,
      <<"s", ":", "/", "/", "a", ":", "p", "@", "h", "/", "d">>,
      <<"s", ":", "/", "/", "a", ":", "p", "@", "h", ":", "5", "/">>,
      <<"n", "o", "t", "-", "a", "-", "u", "r", "l">> }

ParseInputs ==
    BuiltInputs \cup { Unbuilt(r) : r \in RawStrings \cup TestInvalid \cup {TestValid} }

WellFormed(in) ==
    /\ in.built
    /\ in.scheme.wf /\ in.user.wf /\ in.pass.wf /\ in.host.wf /\ in.port.wf /\ in.db.wf

\* the URLs given to PgDumpToFile and DropTablesAndMigrate
CallInputs ==
    { in \in BuiltInputs :
        /\ in.scheme.text = <<"s", ":">>
        /\ in.host.text = <<"h">>
        /\ in.user.wf
        /\ in.raw = in.scheme.text \o <<"/", "/">> \o Userinfo(in.user, in.pass)
                      \o in.host.text \o in.port.text \o in.db.text
        /\ \/ in.pass.wf /\ in.port.text = <<":", "5">>
              /\ in.db.text \in {<<"/", "d">>, <<"/", "d", "%", "2", "F", "x">>}
           \/ /\ in.user.text = <<"u">>
              /\ Cardinality({f \in {in.pass, in.port, in.db} : ~f.wf}) = 1
              /\ in.pass.text \in {<<":", "p">>, Empty}
              /\ in.port.text \in {<<":", "5">>, <<":", "5", "x">>}
              /\ in.db.text \in {<<"/", "d">>, <<"/">>} }
      \cup {Unbuilt(Empty)}

(***************************************************************************)
(* Errors are chains of wrapped errors, outermost first; nil is empty.     *)
(***************************************************************************)
Nil == Empty

DeadlineExceeded == "context deadline exceeded"

Canceled == "context canceled"

Wrap(prefix, err) == <<prefix>> \o err

ErrorsIs(err, target) == \E i \in 1..Len(err) : err[i] = target

\* ctx.Err() of a context that is done
CtxErr(c) == IF c = "deadline" THEN <<DeadlineExceeded>> ELSE <<Canceled>>

(***************************************************************************)
(* context.WithTimeout(parent, d): the state of the derived context.       *)
(***************************************************************************)
\* the timeout taken in the wrong unit
WithTimeout_WrongUnit(parentState, now, d) ==
    [state |-> IF parentState # "live" THEN parentState
               ELSE IF d <= 0 THEN "deadline" ELSE "live",
     deadline |-> now + d * 1000]

WithTimeout(parentState, now, d) ==
    [state |-> IF parentState # "live" THEN parentState
               ELSE IF d <= 0 THEN "deadline" ELSE "live",
     deadline |-> now + d]

(***************************************************************************)
(* exec.Cmd.Run = Start then Wait.                                         *)
(* Start fails without a process when the executable was not found or the  *)
(* context is already done.  Wait reports how the process ended.           *)
(***************************************************************************)
StartErr(found, c) ==
    IF ~found THEN <<"exec: executable file not found">>
    ELSE IF c # "live" THEN CtxErr(c)
    ELSE Nil

WaitErr(childState, exitCode) ==
    IF childState = "killed" THEN <<"signal: killed">>
    ELSE IF exitCode # 0 THEN <<"exit status">>
    ELSE Nil

(***************************************************************************)
(* The commands the two functions build.  Every argument and environment   *)
(* entry records the variable its value comes from.                        *)
(***************************************************************************)
Const(text) == [val |-> text, src |-> "const"]

Arg(text, from) == [val |-> text, src |-> from]

OutFile == <<"o", "u", "t">>

Environs ==
    { << >>,
      << [key |-> "PATH", val |-> <<"/", "b">>, src |-> "environ"],
         [key |-> "PGPASSWORD", val |-> <<"o">>, src |-> "environ"] >> }

PgDumpArgs(host, port, user, db, outFile) ==
    << Const(<<"pg_dump">>),
       Const(<<"-", "h">>), Arg(host, "host"),
       Const(<<"-", "p">>), Arg(port, "port"),
       Const(<<"-", "U">>), Arg(user, "user"),
       Const(<<"-", "d">>), Arg(db, "db"),
       Const(<<"-", "F">>), Const(<<"c">>),
       Const(<<"-", "b">>),
       Const(<<"-", "v">>),
       Const(<<"-", "f">>), Arg(outFile, "outFile") >>

PgDumpEnv(environ, pass) ==
    Append(environ, [key |-> "PGPASSWORD", val |-> pass, src |-> "pass"])

MigrateArgs(dbURL, path) ==
    << Const(<<"migrate">>), Const(<<"-database">>), Arg(dbURL, "dbURL"),
       Const(<<"-path">>), Arg(path, "migrationsPath"), Const(<<"up">>) >>

NoCmd == [name |-> "none", args |-> << >>, env |-> << >>]

\* the password handed over as the -W argument instead of through the environment
PgDumpCommand_PasswordArg(host, port, user, db, pass, outFile, env) ==
    [name |-> "pg_dump",
     args |-> PgDumpArgs(host, port, user, db, outFile)
                \o <<Const(<<"-", "W">>), Arg(pass, "pass")>>,
     env |-> env]

\* lines 98-110: the pg_dump command and its environment
PgDumpCommand(host, port, user, db, pass, outFile, env) ==
    [name |-> "pg_dump",
     args |-> PgDumpArgs(host, port, user, db, outFile),
     env |-> PgDumpEnv(env, pass)]

\* line 73: the migrate command, which inherits the environment
MigrateCommand(dbURL, path, env) ==
    [name |-> "migrate", args |-> MigrateArgs(dbURL, path), env |-> env]

\* the URL check skipped
Rejected_Never(err) == FALSE

\* line 91: PgDumpToFile gives up on a URL the validator rejects
Rejected(err) == err # Nil

\* the error of cmd.Run dropped
DumpResult_Swallow(err) == Nil

\* lines 114-117: the error of cmd.Run wrapped, or nil
DumpResult(err) == IF err # Nil THEN Wrap("pg_dump failed", err) ELSE Nil

\* lines 76-84: the error of cmd.Run wrapped, or nil
MigrateResult(err) == IF err # Nil THEN Wrap("migrate up failed", err) ELSE Nil

\* the error of the drop statement ignored
AfterDrop_NoErrCheck(err, path) == IF path # Empty THEN "migrate" ELSE "skip"

\* the migration run whether or not a path is given
AfterDrop_NoPathCheck(err, path) == IF err # Nil THEN "fail" ELSE "migrate"

\* lines 63-68: what follows the drop statement
AfterDrop(err, path) ==
    IF err # Nil THEN "fail"
    ELSE IF path # Empty THEN "migrate"
    ELSE "skip"

\* conn.Exec: the statement fails when the database rejects it or the context is done
ExecErr(fails, parentState) ==
    IF fails \/ parentState # "live" THEN <<"pgx error">> ELSE Nil

\* the migration deadline in minutes
MigrateTimeout == 5

(***************************************************************************)
(* State.                                                                  *)
(***************************************************************************)
VARIABLES
    op,             \* the function called: "parse", "dump" or "migrate"
    pc,             \* position in the function
    input,          \* the URL argument
    migrationsPath, \* argument of DropTablesAndMigrate
    timeout,        \* argument of PgDumpToFile
    environ,        \* os.Environ()
    tool,           \* the external executable: found, dur, exit, writes
    dbFails,        \* whether the database rejects the drop statement
    res,            \* result of ParsePostgresURL
    parent,         \* the caller's context: "live", "canceled", "deadline"
    ctx,            \* the derived context: "none", "live", "canceled", "deadline"
    deadline,       \* clock value at which the derived context expires
    clock,          \* time
    cmd,            \* the command built
    child,          \* the child process: "none", "running", "exited", "killed"
    spawns,         \* processes started
    started,        \* clock value at which the child was started
    outFile,        \* "absent", or "written" once the tool has written it
    dropState,      \* drop statement: "none", "running", "ok", "failed"
    ret,            \* returned error, once pc = "done"
    retClock        \* clock value at return

vars == <<op, pc, input, migrationsPath, timeout, environ, tool, dbFails, res,
          parent, ctx, deadline, clock, cmd, child, spawns, started, outFile,
          dropState, ret, retClock>>

args == <<op, input, migrationsPath, timeout, environ, tool, dbFails>>

NoRes == [user |-> Empty, pass |-> Empty, host |-> Empty, port |-> Empty,
          db |-> Empty, err |-> <<"not called">>, msg |-> Empty, got |-> NoFields]

NoTool == [found |-> FALSE, dur |-> 1, exit |-> 0, writes |-> FALSE]

Fresh ==
    /\ pc = "call"
    /\ res = NoRes
    /\ ctx = "none"
    /\ deadline = 0
    /\ clock = 0
    /\ cmd = NoCmd
    /\ child = "none"
    /\ spawns = 0
    /\ started = 0
    /\ outFile = "absent"
    /\ dropState = "none"
    /\ ret = Nil
    /\ retClock = 0

InitParse ==
    /\ op = "parse"
    /\ input \in ParseInputs
    /\ migrationsPath = Empty
    /\ timeout = 0
    /\ environ = << >>
    /\ tool = NoTool
    /\ dbFails = FALSE
    /\ parent = "live"

InitDump ==
    /\ op = "dump"
    /\ input \in CallInputs
    /\ migrationsPath = Empty
    /\ timeout \in (-1)..MaxTimeout
    /\ environ \in Environs
    /\ tool \in [found : BOOLEAN, dur : 1..MaxDur, exit : {0, 1}, writes : BOOLEAN]
    /\ dbFails = FALSE
    /\ parent \in {"live", "canceled"}

InitMigrate ==
    /\ op = "migrate"
    /\ input \in {in \in CallInputs : in.built /\ in.db.text = <<"/", "d">>
                                       /\ in.user.text = <<"u">>}
    /\ migrationsPath \in {Empty, <<"m">>}
    /\ timeout = 0
    /\ environ = << >>
    /\ tool \in [found : BOOLEAN, dur : 1..MaxMigrateDur, exit : {0, 1}, writes : {FALSE}]
    /\ dbFails \in BOOLEAN
    /\ parent \in {"live", "canceled"}

Init == Fresh /\ (InitParse \/ InitDump \/ InitMigrate)

Return(err) ==
    /\ pc' = "done"
    /\ ret' = err
    /\ retClock' = clock

(***************************************************************************)
(* A call of ParsePostgresURL.                                             *)
(***************************************************************************)
CallParsePostgresURL ==
    /\ op = "parse" /\ pc = "call"
    /\ res' = ParsePostgresURL(input.raw)
    /\ Return(res'.err)
    /\ UNCHANGED <<args, parent, ctx, deadline, clock, cmd, child, spawns, started,
                   outFile, dropState>>

(***************************************************************************)
(* PgDumpToFile.                                                           *)
(***************************************************************************)
\* lines 90-93: validate the URL; a rejected URL ends the call
DumpValidate ==
    /\ op = "dump" /\ pc = "call"
    /\ res' = ParsePostgresURL(input.raw)
    /\ IF Rejected(res'.err)
       THEN Return(Wrap("parse db url", res'.err))
       ELSE pc' = "derive" /\ UNCHANGED <<ret, retClock>>
    /\ UNCHANGED <<args, parent, ctx, deadline, clock, cmd, child, spawns, started,
                   outFile, dropState>>

\* lines 95-112: derive the context, build the command and its environment
DumpBuild ==
    /\ op = "dump" /\ pc = "derive"
    /\ ctx' = WithTimeout(parent, clock, timeout).state
    /\ deadline' = WithTimeout(parent, clock, timeout).deadline
    /\ cmd' = PgDumpCommand(res.host, res.port, res.user, res.db, res.pass, OutFile,
                            environ)
    /\ pc' = "run"
    /\ UNCHANGED <<args, res, parent, clock, child, spawns, started, outFile,
                   dropState, ret, retClock>>

\* line 114, cmd.Run: Start
DumpStart ==
    /\ op = "dump" /\ pc = "run"
    /\ IF StartErr(tool.found, ctx) # Nil
       THEN /\ Return(DumpResult(StartErr(tool.found, ctx)))
            /\ UNCHANGED <<child, spawns, started>>
       ELSE /\ child' = "running"
            /\ spawns' = spawns + 1
            /\ started' = clock
            /\ pc' = "wait"
            /\ UNCHANGED <<ret, retClock>>
    /\ UNCHANGED <<args, res, parent, ctx, deadline, clock, cmd, outFile, dropState>>

\* lines 114-117, cmd.Run: Wait, and the return
DumpWait ==
    /\ op = "dump" /\ pc = "wait"
    /\ child \in {"exited", "killed"}
    /\ Return(DumpResult(WaitErr(child, tool.exit)))
    /\ UNCHANGED <<args, res, parent, ctx, deadline, clock, cmd, child, spawns,
                   started, outFile, dropState>>

(***************************************************************************)
(* DropTablesAndMigrate.                                                   *)
(***************************************************************************)
\* lines 62-63: the drop statement is sent
DropStart ==
    /\ op = "migrate" /\ pc = "call"
    /\ dropState' = "running"
    /\ pc' = "exec"
    /\ UNCHANGED <<args, res, parent, ctx, deadline, clock, cmd, child, spawns,
                   started, outFile, ret, retClock>>

\* lines 63-73 and 80-84: the statement returns; on success the migration command
\* is prepared, or the call ends when there is no migrations path
DropFinish ==
    /\ op = "migrate" /\ pc = "exec"
    /\ dropState' = IF ExecErr(dbFails, parent) # Nil THEN "failed" ELSE "ok"
    /\ CASE AfterDrop(ExecErr(dbFails, parent), migrationsPath) = "fail" ->
              /\ Return(Wrap("drop tables", ExecErr(dbFails, parent)))
              /\ UNCHANGED <<ctx, deadline, cmd>>
         [] AfterDrop(ExecErr(dbFails, parent), migrationsPath) = "migrate" ->
              /\ ctx' = WithTimeout(parent, clock, MigrateTimeout).state
              /\ deadline' = WithTimeout(parent, clock, MigrateTimeout).deadline
              /\ cmd' = MigrateCommand(input.raw, migrationsPath, environ)
              /\ pc' = "run"
              /\ UNCHANGED <<ret, retClock>>
         [] AfterDrop(ExecErr(dbFails, parent), migrationsPath) = "skip" ->
              /\ Return(Nil)
              /\ UNCHANGED <<ctx, deadline, cmd>>
    /\ UNCHANGED <<args, res, parent, clock, child, spawns, started, outFile>>

\* line 76, cmd.Run: Start
MigrateStart ==
    /\ op = "migrate" /\ pc = "run"
    /\ IF StartErr(tool.found, ctx) # Nil
       THEN /\ Return(MigrateResult(StartErr(tool.found, ctx)))
            /\ UNCHANGED <<child, spawns, started>>
       ELSE /\ child' = "running"
            /\ spawns' = spawns + 1
            /\ started' = clock
            /\ pc' = "wait"
            /\ UNCHANGED <<ret, retClock>>
    /\ UNCHANGED <<args, res, parent, ctx, deadline, clock, cmd, outFile, dropState>>

\* lines 76-84, cmd.Run: Wait, and the return
MigrateWait ==
    /\ op = "migrate" /\ pc = "wait"
    /\ child \in {"exited", "killed"}
    /\ Return(MigrateResult(WaitErr(child, tool.exit)))
    /\ UNCHANGED <<args, res, parent, ctx, deadline, clock, cmd, child, spawns,
                   started, outFile, dropState>>

(***************************************************************************)
(* The environment: the child process, the contexts and time.              *)
(***************************************************************************)
\* the tool completes on its own, writing its output at the very end
ChildFinish ==
    /\ child = "running"
    /\ clock - started = tool.dur
    /\ child' = "exited"
    /\ outFile' = IF tool.writes THEN "written" ELSE outFile
    /\ UNCHANGED <<args, pc, res, parent, ctx, deadline, clock, cmd, spawns, started,
                   dropState, ret, retClock>>

\* exec.CommandContext: the derived context expires and the process is killed
DeadlineExpire ==
    /\ child = "running"
    /\ ctx = "live"
    /\ clock >= deadline
    /\ ctx' = "deadline"
    /\ child' = "killed"
    /\ UNCHANGED <<args, pc, res, parent, deadline, clock, cmd, spawns, started,
                   outFile, dropState, ret, retClock>>

\* the caller cancels its context, or that context's own deadline passes, while
\* the call is blocked on the database or on the child process
ParentDone ==
    /\ parent = "live"
    /\ pc \in {"derive", "exec", "run"} \/ child = "running"
    /\ parent' \in {"canceled", "deadline"}
    /\ ctx' = IF ctx = "live" THEN parent' ELSE ctx
    /\ child' = IF child = "running" /\ ctx = "live" THEN "killed" ELSE child
    /\ UNCHANGED <<args, pc, res, deadline, clock, cmd, spawns, started, outFile,
                   dropState, ret, retClock>>

\* time passes while the child runs and nothing is due
Tick ==
    /\ child = "running"
    /\ clock - started < tool.dur
    /\ ctx = "live" => clock < deadline
    /\ clock' = clock + 1
    /\ UNCHANGED <<args, pc, res, parent, ctx, deadline, cmd, child, spawns, started,
                   outFile, dropState, ret, retClock>>

Next ==
    \/ CallParsePostgresURL
    \/ DumpValidate
    \/ DumpBuild
    \/ DumpStart
    \/ DumpWait
    \/ DropStart
    \/ DropFinish
    \/ MigrateStart
    \/ MigrateWait
    \/ ChildFinish
    \/ DeadlineExpire
    \/ ParentDone
    \/ Tick

Spec == Init /\ [][Next]_vars

(***************************************************************************)
(* Reading the text of the "incomplete database URL" error back: the       *)
(* fields it reports, in order, each with its unquoted value.              *)
(***************************************************************************)
RECURSIVE QuotedEnd(_, _)
QuotedEnd(m, i) ==
    IF i > Len(m) THEN 0
    ELSE IF m[i] = "\\" THEN QuotedEnd(m, i + 2)
    ELSE IF m[i] = "\"" THEN i
    ELSE QuotedEnd(m, i + 1)

RECURSIVE Unquote(_)
Unquote(b) ==
    IF b = Empty THEN Empty
    ELSE IF Head(b) = "\\" /\ Len(b) >= 2
         THEN <<(IF b[2] = "n" THEN "\n" ELSE b[2])>> \o Unquote(SubSeq(b, 3, Len(b)))
         ELSE <<Head(b)>> \o Unquote(Tail(b))

Unreadable == <<[label |-> <<"?">>, value |-> Empty]>>

RECURSIVE ReportedFrom(_, _)
ReadField(m, i, eq, close) ==
    IF eq = 0 \/ close = 0 \/ m[i] # " " THEN Unreadable
    ELSE <<[label |-> SubSeq(m, i + 1, i + eq - 1),
            value |-> Unquote(SubSeq(m, i + eq + 2, close - 1))]>>
           \o ReportedFrom(m, close + 1)

ReportedFrom(m, i) ==
    IF i > Len(m) THEN << >>
    ELSE IF Index(From(m, i), "=") = 0 \/ i + Index(From(m, i), "=") > Len(m)
    THEN Unreadable
    ELSE IF m[i + Index(From(m, i), "=")] # "\"" THEN Unreadable
    ELSE ReadField(m, i, Index(From(m, i), "=") - 1,
                   QuotedEnd(m, i + Index(From(m, i), "=") + 1))

Reported(m) ==
    IF HasPrefix(m, IncompletePrefix) THEN ReportedFrom(m, Len(IncompletePrefix) + 1)
    ELSE Unreadable

Label(f) == Tail(SubSeq(FieldLabel(f), 1, Len(FieldLabel(f)) - 1))

Reports(m, f, v) ==
    \E i \in 1..Len(Reported(m)) :
        Reported(m)[i] = [label |-> Label(f), value |-> v]

FiveFields == {"user", "pass", "host", "port", "db"}

(***************************************************************************)
(* Properties.                                                             *)
(***************************************************************************)
ParseDone == op = "parse" /\ pc = "done"

DumpDone == op = "dump" /\ pc = "done"

MigrateDone == op = "migrate" /\ pc = "done"

Returned(r) == <<r.user, r.pass, r.host, r.port, r.db>>

\* C1: in DropTablesAndMigrate the migration command is prepared and its process
\* started only after the drop statement has finished successfully; when the drop
\* statement fails the call returns that error, wrapped, and no migration process
\* is ever started.
C1_DropBeforeMigrate ==
    op = "migrate" =>
        /\ (spawns > 0 \/ child # "none" \/ cmd # NoCmd \/ ctx # "none")
               => dropState = "ok"
        /\ dropState = "failed"
               => /\ pc = "done"
                  /\ ret = Wrap("drop tables", ExecErr(dbFails, parent))
                  /\ ret # Nil
                  /\ spawns = 0 /\ child = "none"
        /\ dropState = "running" => spawns = 0 /\ child = "none"

C1_Witness ==
    /\ MigrateDone /\ dropState = "failed"
    /\ migrationsPath # Empty /\ tool.found /\ spawns = 0

\* C2: ParsePostgresURL returns nil only with all five values non-empty, returns
\* five empty values with every error, and returns an error for the empty string,
\* for "not-a-url", for the other inputs of TestParsePostgresURL_Invalid and for
\* every built URL in which user, password, host, port or database is missing.
SomePartMissing(in) ==
    \E f \in {in.user, in.pass, in.host, in.port, in.db} : f.plain = Empty

C2_NoPartialSuccess ==
    ParseDone =>
        /\ res.err = Nil => \A i \in 1..5 : Returned(res)[i] # Empty
        /\ res.err # Nil => \A i \in 1..5 : Returned(res)[i] = Empty
        /\ ret = res.err
        /\ (input.built /\ SomePartMissing(input)) => res.err # Nil
        /\ input.raw \in TestInvalid => res.err # Nil
        /\ input.raw = TestValid => res.err = Nil

C2_Witness ==
    /\ ParseDone /\ input.built
    /\ input.scheme.wf /\ input.user.wf /\ input.host.wf /\ input.port.wf /\ input.db.wf
    /\ input.pass.text = Empty
    /\ res.err # Nil

\* C3 as stated: for a well-formed URL with all five components ParsePostgresURL
\* succeeds and returns the five components exactly as they are written in the URL,
\* the path without its one leading separator.
C3_Unmodified ==
    (ParseDone /\ WellFormed(input)) =>
        /\ res.err = Nil
        /\ res.user = input.user.text
        /\ res.pass = Tail(input.pass.text)
        /\ res.host = input.host.text
        /\ res.port = Tail(input.port.text)
        /\ res.db = Tail(input.db.text)

\* C3 amended: for a well-formed URL with all five components and no percent-escape
\* in the host, ParsePostgresURL succeeds and returns the values the components
\* stand for: user, password and database with their percent-escapes decoded, the
\* host without the brackets of an IP literal, the port as written, and the path
\* less exactly one leading separator; the scheme does not enter the result.
C3_Decoded ==
    (ParseDone /\ WellFormed(input) /\ ~Contains(input.host.text, "%")) =>
        /\ res.err = Nil
        /\ res.user = input.user.plain
        /\ res.pass = input.pass.plain
        /\ res.host = input.host.plain
        /\ res.port = Tail(input.port.text)
        /\ res.db = input.db.plain
        /\ Contains(input.db.text, "%") \/ res.db = Tail(input.db.text)

C3_Witness ==
    /\ ParseDone /\ WellFormed(input)
    /\ Contains(input.user.text, "%")
    /\ input.db.text = <<"/", "/", "d">>
    /\ res.user = <<"u", "@">> /\ res.db = <<"/", "d">>

\* C4: when ParsePostgresURL rejects the URL given to PgDumpToFile, the empty
\* string included, PgDumpToFile returns the validator's error wrapped, derives no
\* context, builds no command and spawns no process; a context is derived and a
\* process spawned only after the URL has been validated and accepted.
C4_InvalidURLNoSpawn ==
    op = "dump" =>
        /\ (res # NoRes /\ res.err # Nil)
               => /\ pc = "done"
                  /\ ret = Wrap("parse db url", res.err)
                  /\ \A i \in 1..Len(res.err) : ErrorsIs(ret, res.err[i])
                  /\ ctx = "none" /\ cmd = NoCmd /\ spawns = 0 /\ child = "none"
        /\ (ctx # "none" \/ cmd # NoCmd \/ spawns > 0) => (res # NoRes /\ res.err = Nil)
        /\ (DumpDone /\ input.raw = Empty) => ErrorsIs(ret, "empty db url")
        /\ (DumpDone /\ ~WellFormed(input)) => ret # Nil /\ spawns = 0

C4_Witness ==
    /\ DumpDone /\ input.raw = Empty
    /\ ret = <<"parse db url", "empty db url">> /\ spawns = 0 /\ tool.found

\* C5: when the dump tool would run longer than the timeout, PgDumpToFile returns
\* an error before the tool's natural completion, no child process is left running
\* (a started child has been killed), and the tool, which writes its output only at
\* the very end of its run, has not written the destination file.
C5_TimeoutKills ==
    (DumpDone /\ res.err = Nil /\ tool.dur > timeout) =>
        /\ ret # Nil
        /\ child \in {"none", "killed"}
        /\ spawns > 0 => (child = "killed" /\ retClock - started < tool.dur)
        /\ outFile = "absent"

C5_Witness ==
    /\ DumpDone /\ res.err = Nil /\ tool.dur > timeout /\ timeout > 0
    /\ tool.found /\ tool.writes /\ tool.exit = 0 /\ parent = "live"
    /\ child = "killed" /\ ctx = "deadline" /\ retClock = timeout

\* C6: a PgDumpToFile failure caused by the deadline is told apart from every other
\* failure by the returned error: the error of a call that failed because its
\* deadline passed wraps context.DeadlineExceeded, and no other error does.
FailedByDeadline == tool.found /\ ctx = "deadline"

C6_TimeoutDistinguishable ==
    (DumpDone /\ res.err = Nil /\ ret # Nil /\ parent = "live") =>
        (FailedByDeadline <=> ErrorsIs(ret, DeadlineExceeded))

\* C7: PgDumpToFile hands the password to pg_dump through PGPASSWORD alone, as the
\* last entry of the environment, after the caller's entries; no command-line
\* argument is taken from the password, and the password's value is not among
\* the arguments unless host, port, user, database or output file has that value.
C7_PasswordOnlyInEnv ==
    (op = "dump" /\ cmd # NoCmd) =>
        /\ cmd.name = "pg_dump"
        /\ \A i \in 1..Len(cmd.args) : cmd.args[i].src # "pass"
        /\ res.pass \notin {res.host, res.port, res.user, res.db, OutFile}
               => \A i \in 1..Len(cmd.args) : cmd.args[i].val # res.pass
        /\ Len(cmd.env) = Len(environ) + 1
        /\ SubSeq(cmd.env, 1, Len(environ)) = environ
        /\ cmd.env[Len(cmd.env)] = [key |-> "PGPASSWORD", val |-> res.pass, src |-> "pass"]
        /\ res.pass # Empty

C7_Witness ==
    /\ op = "dump" /\ child = "running" /\ cmd.name = "pg_dump"
    /\ environ # << >> /\ res.pass = <<"p">> /\ res.user = <<"u", "@">>

\* C8 as stated: with an empty migrationsPath the drop statement still runs, no
\* process is spawned and a successful drop gives success; with a non-empty
\* migrationsPath and a successful drop exactly one process is spawned; never more
\* than one.
C8_ExactlyOneSpawn ==
    op = "migrate" =>
        /\ spawns <= 1
        /\ migrationsPath = Empty => spawns = 0
        /\ (MigrateDone /\ migrationsPath = Empty /\ dropState = "ok") => ret = Nil
        /\ (MigrateDone /\ migrationsPath # Empty /\ dropState = "ok") => spawns = 1

\* C8 amended: with an empty migrationsPath the drop statement still runs, no
\* command is built, no process is spawned and a successful drop gives success;
\* with a non-empty migrationsPath and a successful drop the migrate command is run
\* exactly once, which spawns one process when the tool is found and the context
\* is not yet done, and none (an error is returned) otherwise; never more than one.
C8_AtMostOneSpawn ==
    op = "migrate" =>
        /\ spawns <= 1
        /\ MigrateDone => dropState \in {"ok", "failed"}
        /\ migrationsPath = Empty => (spawns = 0 /\ cmd = NoCmd /\ child = "none")
        /\ (MigrateDone /\ migrationsPath = Empty /\ dropState = "ok") => ret = Nil
        /\ (MigrateDone /\ migrationsPath # Empty /\ dropState = "ok")
               => /\ cmd.name = "migrate"
                  /\ spawns = 0 => (ret # Nil /\ (~tool.found \/ ctx # "live"))
                  /\ (tool.found /\ parent = "live") => spawns = 1
                  /\ ~tool.found => spawns = 0

C8_Witness ==
    /\ MigrateDone /\ migrationsPath = Empty /\ dropState = "ok"
    /\ ret = Nil /\ spawns = 0 /\ tool.found

\* C9: one PgDumpToFile call with a valid URL spawns pg_dump at most once; it
\* returns nil exactly when the tool was started and exited zero on its own, no
\* later than the deadline; it returns an error when the tool is not found or not
\* started, exits non-zero or is killed; a tool that is not found writes no file.
C9_SingleAttempt ==
    op = "dump" =>
        /\ spawns <= 1
        /\ (DumpDone /\ res.err = Nil)
               => /\ ret = Nil <=> (spawns = 1 /\ child = "exited" /\ tool.exit = 0)
                  /\ ret = Nil => (retClock <= deadline /\ retClock = started + tool.dur)
                  /\ ~tool.found => (ret # Nil /\ spawns = 0 /\ outFile = "absent")
                  /\ spawns = 0 => ret # Nil
                  /\ child = "killed" => ret # Nil
                  /\ tool.exit # 0 => ret # Nil

C9_Witness ==
    /\ DumpDone /\ res.err = Nil /\ ret = Nil
    /\ spawns = 1 /\ child = "exited" /\ outFile = "written" /\ clock = timeout

\* C10 as stated: the error for an incomplete URL reports, for each of the five
\* fields user, password, host, port and database, its resolved value.
Incompleted == ParseDone /\ res.err = <<"incomplete database URL">>

C10_AllFiveReported ==
    Incompleted => \A f \in FiveFields : Reports(res.msg, f, res.got[f])

\* C10 amended: the error for an incomplete URL reports the resolved values of
\* user, host, port and database, in that order and readable without ambiguity,
\* and nothing about the password; the empty field is one of the four reported as
\* empty, or else it is the password.
C10_FourReported ==
    Incompleted =>
        /\ Reported(res.msg) =
               << [label |-> Label("user"), value |-> res.got.user],
                  [label |-> Label("host"), value |-> res.got.host],
                  [label |-> Label("port"), value |-> res.got.port],
                  [label |-> Label("db"), value |-> res.got.db] >>
        /\ ~\E v \in {Empty, res.got.pass} : Reports(res.msg, "pass", v)
        /\ (\A i \in 1..4 : Reported(res.msg)[i].value # Empty) => res.got.pass = Empty

C10_Witness ==
    /\ Incompleted
    /\ res.got.pass = Empty /\ res.got.user # Empty /\ res.got.host # Empty
    /\ res.got.port # Empty /\ Contains(res.got.db, "\"")

=============================================================================
